---- MODULE Spec2Model ----
(***************************************************************************)
(* A state-machine model of the rental-listings REST backend:              *)
(*   helpers/token_verification.py, routers/auth.py, routers/user.py,      *)
(*   routers/listings.py, routers/apartments.py, database/models.py.       *)
(*                                                                         *)
(* Time is counted in minutes.  `now` is the UTC clock (datetime.utcnow),  *)
(* `tz` the offset of the server's local zone, so that datetime.now() and  *)
(* datetime.fromtimestamp(x) are now + tz and x + tz.                      *)
(* Python None and SQL NULL are the empty tuple, a present value v is <<v>>.*)
(* An unhandled exception of a handler is the 500 response of the server.  *)
(***************************************************************************)
EXTENDS Integers, Sequences, FiniteSets, TLC

VARIABLES
    now,        \* UTC clock, minutes
    tz,         \* local-zone offset of the server, minutes
    users,      \* table users:         id -> row
    apartments, \* table apartments:    id -> row
    listings,   \* table listings:      id -> row
    images,     \* table listingimages: id -> row
    issued,     \* tokens handed out by create_access_token, with subject and time
    last,       \* the request handled last and its response
    search,     \* the working state of the last search_apartments call
    requests    \* the register_user calls that run concurrently, each with its position

vars == <<now, tz, users, apartments, listings, images, issued, last, search, requests>>

None == <<>>
Some(v) == <<v>>

(***************************************************************************)
(* Bounds of the model.                                                    *)
(***************************************************************************)
MaxTime == 3        \* the clock of the token specifications stops here
MaxOtpTime == 11    \* the clock of the OTP specification stops here
MaxTokens == 1      \* tokens in circulation
MaxQueryWords == 3  \* words of an enumerated search query, empty words included

UserIds == {"u1", "u2"}
ListingIds == {"l1"}
ImageIds == {"i1"}
ApartmentIds == {"a1"}
Passwords == {"pw1", "pw2"}
OtpValues == {"A1B2C3", "D4E5F6"}
TzOffsets == {-60, 0, 60}

(***************************************************************************)
(* Configuration read from the environment.                                *)
(***************************************************************************)
SECRET_KEY == "SECRET_KEY"
OTHER_KEY == "OTHER_KEY"
ACCESS_TOKEN_EXPIRE_MINUTES == 2

(***************************************************************************)
(* Strings are tuples of one-character strings, so that lower(), title(),  *)
(* split() and slicing are computed character by character.                *)
(***************************************************************************)
LowerCase ==
    <<"a", "b", "c", "d", "e", "f", "g", "h", "i", "j", "k", "l", "m",
      "n", "o", "p", "q", "r", "s", "t", "u", "v", "w", "x", "y", "z">>

UpperCase ==
    <<"A", "B", "C", "D", "E", "F", "G", "H", "I", "J", "K", "L", "M",
      "N", "O", "P", "Q", "R", "S", "T", "U", "V", "W", "X", "Y", "Z">>

IsLetter(ch) == \E i \in DOMAIN LowerCase : ch = LowerCase[i] \/ ch = UpperCase[i]

lower_char(ch) ==
    IF \E i \in DOMAIN UpperCase : UpperCase[i] = ch
    THEN LowerCase[CHOOSE i \in DOMAIN UpperCase : UpperCase[i] = ch] ELSE ch

upper_char(ch) ==
    IF \E i \in DOMAIN LowerCase : LowerCase[i] = ch
    THEN UpperCase[CHOOSE i \in DOMAIN LowerCase : LowerCase[i] = ch] ELSE ch

str_lower(s) == [i \in DOMAIN s |-> lower_char(s[i])]

\* str.title(): the first letter of every run of letters is upper-cased, the rest lower-cased
str_title(s) ==
    [i \in DOMAIN s |->
        IF i = 1 \/ ~IsLetter(s[i - 1])
        THEN upper_char(s[i]) ELSE lower_char(s[i])]

(***************************************************************************)
(* Password hashing (passlib pbkdf2_sha256).                               *)
(***************************************************************************)
get_password_hash(password) == [scheme |-> "pbkdf2_sha256", of |-> password]

verify_password(plain_password, password_hash) == password_hash.of = plain_password

(***************************************************************************)
(* Token signer (python-jose).  A token is its claims and the key that     *)
(* signed it.  decode checks the signature first and the expiry second:    *)
(* a bad signature raises JWTError, exp < now raises ExpiredSignatureError.*)
(***************************************************************************)
jwt_encode(claims, key) ==
    [sub |-> claims.sub, exp |-> claims.exp, iat |-> claims.iat, sig |-> key]

Raised(e) == [exc |-> e, isdict |-> FALSE, sub |-> "", exp |-> 0]
ReturnedFalse == [exc |-> "none", isdict |-> FALSE, sub |-> "", exp |-> 0]
ReturnedClaims(c) == [exc |-> "none", isdict |-> TRUE, sub |-> c.sub, exp |-> c.exp]

jwt_decode(token, key, t) ==
    IF token.sig # key THEN Raised("JWTError")
    ELSE IF token.exp < t THEN Raised("ExpiredSignatureError")
    ELSE ReturnedClaims(token)

\* the configured minutes taken as hours
create_access_token_hours(data, t) ==
    jwt_encode([sub |-> data.sub, exp |-> t + 60 * ACCESS_TOKEN_EXPIRE_MINUTES, iat |-> t],
               SECRET_KEY)

create_access_token(data, t) ==
    jwt_encode([sub |-> data.sub, exp |-> t + ACCESS_TOKEN_EXPIRE_MINUTES, iat |-> t],
               SECRET_KEY)

(***************************************************************************)
(* The Authorization header: None, or <<[scheme, cred]>> for the text      *)
(* "<scheme> <cred>".  No credential contains the text "Bearer".           *)
(***************************************************************************)
Header(scheme, cred) == Some([scheme |-> scheme, cred |-> cred])
Bearer(cred) == Header("Bearer", cred)

datetime_fromtimestamp(ts) == ts + tz

datetime_now == now + tz

decode_token(token, t) ==
    IF token = None THEN Raised("TypeError")            \* "Bearer" not in None
    ELSE IF token[1].scheme # "Bearer" THEN ReturnedFalse
    ELSE jwt_decode(token[1].cred, SECRET_KEY, t)

BoolResult(b) == [exc |-> "none", val |-> b]
BoolRaised(e) == [exc |-> e, val |-> FALSE]

generate_id_from_token(token, user_id, t) ==
    LET d == decode_token(token, t) IN
    IF d.exc = "ExpiredSignatureError" THEN BoolResult(FALSE)
    ELSE IF d.exc # "none" THEN BoolRaised(d.exc)
    ELSE IF ~d.isdict THEN BoolRaised("TypeError")       \* False["exp"]
    ELSE BoolResult(d.sub = user_id /\ ~(t > datetime_fromtimestamp(d.exp)))

\* the users table is not consulted
verify_id_from_token_without_lookup(token, t) ==
    LET d == decode_token(token, t) IN
    IF d.exc = "ExpiredSignatureError" THEN BoolResult(FALSE)
    ELSE IF d.exc # "none" THEN BoolRaised(d.exc)
    ELSE IF ~d.isdict THEN BoolRaised("TypeError")
    ELSE IF t > datetime_fromtimestamp(d.exp) THEN BoolResult(FALSE)
    ELSE BoolResult(TRUE)

verify_id_from_token(token, t) ==
    LET d == decode_token(token, t) IN
    IF d.exc = "ExpiredSignatureError" THEN BoolResult(FALSE)
    ELSE IF d.exc # "none" THEN BoolRaised(d.exc)
    ELSE IF ~d.isdict THEN BoolRaised("TypeError")       \* False["exp"]
    ELSE IF t > datetime_fromtimestamp(d.exp) THEN BoolResult(FALSE)
    ELSE BoolResult(d.sub \in DOMAIN users)

\* how a handler that starts with `if not verify_id_from_token(...)` goes on
GuardVerdict(token) ==
    LET v == verify_id_from_token(token, now) IN
    IF v.exc # "none" THEN "raised" ELSE IF v.val THEN "accepted" ELSE "rejected"

GuardStatus(verdict) == IF verdict = "raised" THEN 500 ELSE 401

(***************************************************************************)
(* Text helpers of the search: str.split(" ") and the index to_tsvector.   *)
(***************************************************************************)
RECURSIVE str_split(_)
str_split(s) ==
    IF \A i \in DOMAIN s : s[i] # " " THEN <<s>>
    ELSE LET i == CHOOSE k \in DOMAIN s : s[k] = " " /\ \A j \in 1..(k - 1) : s[j] # " "
         IN <<SubSeq(s, 1, i - 1)>> \o str_split(SubSeq(s, i + 1, Len(s)))

\* the lexemes of a name: its words, lower-cased
to_tsvector(name) ==
    {str_lower(w) : w \in {str_split(name)[i] : i \in DOMAIN str_split(name)}} \ {<<>>}

ApartmentRow(name, pincode, city) ==
    [name |-> name, pincode |-> pincode, city |-> city, name_token |-> to_tsvector(name)]

(***************************************************************************)
(* Storage rows.                                                           *)
(***************************************************************************)
UserRow(name, email, password) ==
    [name |-> name, email |-> email, password |-> password, otp |-> None,
     otp_generation_timestamp |-> None, is_active |-> TRUE]

ListingRow(user_id, apartment_id, listing_type, bedrooms) ==
    [user_id |-> user_id, apartment_id |-> apartment_id, listing_type |-> listing_type,
     bedrooms |-> bedrooms]

\* values of the form field listing_type
Rent == <<"r", "e", "n", "t">>
Sale == <<"s", "a", "l", "e">>
Lease == <<"l", "e", "a", "s", "e">>

ImageRow(listing_id, ik_fileId) == [listing_id |-> listing_id, imagekit_file_id |-> ik_fileId]

Without(f, ks) == [k \in DOMAIN f \ ks |-> f[k]]

With(f, k, v) == [x \in DOMAIN f \cup {k} |-> IF x = k THEN v ELSE f[x]]

Idle ==
    [op |-> "none", status |-> 0, detail |-> "", header |-> None, guard |-> "none",
     arg |-> None]

\* the response of a handler behind the guard
Response(op, status, header, guard, arg) ==
    [op |-> op, status |-> status, detail |-> "", header |-> header, guard |-> guard,
     arg |-> arg]

\* the response of a handler that reads no Authorization header
Answer(op, status, detail, arg) ==
    [op |-> op, status |-> status, detail |-> detail, header |-> None, guard |-> "none",
     arg |-> arg]

StorageUnchanged == UNCHANGED <<users, apartments, listings, images>>

(***************************************************************************)
(* The clock.  A tick also forgets the last request, so that in every      *)
(* state `last` is a request handled at the time `now`.                    *)
(***************************************************************************)
Tick(bound) ==
    /\ now < bound
    /\ now' = now + 1
    /\ last' = Idle
    /\ UNCHANGED <<tz, requests, issued, search>>
    /\ StorageUnchanged

(***************************************************************************)
(* The tokens the clients hold.  A client that is given a token may drop   *)
(* an older one; at most MaxTokens are held.                               *)
(***************************************************************************)
Kept(grant) ==
    {T \in SUBSET (issued \cup {grant}) : grant \in T /\ Cardinality(T) <= MaxTokens}

(***************************************************************************)
(* routers/auth.py: login and the token endpoints.                         *)
(***************************************************************************)
find_user_by_email(email) == {u \in DOMAIN users : users[u].email = email}

\* 0 when the user is authenticated, else the status of the HTTPException
authenticate_user(email, password) ==
    LET found == find_user_by_email(str_lower(email)) IN
    IF found = {} THEN 401
    ELSE IF ~verify_password(password, users[CHOOSE u \in found : TRUE].password) THEN 401
    ELSE 0

login(username, password) ==
    LET failure == authenticate_user(username, password)
        found == find_user_by_email(str_lower(username))
        id == CHOOSE u \in found : TRUE
        access_token == create_access_token([sub |-> id], now)
        grant == [sub |-> id, at |-> now, token |-> access_token]
    IN
    /\ IF failure # 0
       THEN /\ last' = Answer("login", failure, "", Some(username))
            /\ UNCHANGED issued
       ELSE /\ issued' \in Kept(grant)
            /\ last' = Answer("login", 200, "", Some(username))
    /\ UNCHANGED <<now, tz, requests, search>>
    /\ StorageUnchanged

\* fastapi OAuth2PasswordBearer: 401 unless the scheme is "bearer" in any casing
oauth2_scheme(authorization) ==
    IF authorization = None THEN 401
    ELSE IF str_lower(<<authorization[1].scheme>>) # <<"bearer">> THEN 401
    ELSE 0

\* the dependency get_current_user of auth.py: 0 and the user's id, or a status
get_current_user_dependency(token, t) ==
    LET d == jwt_decode(token, SECRET_KEY, t) IN
    IF d.exc # "none" THEN [status |-> 401, id |-> ""]
    ELSE IF d.sub \notin DOMAIN users THEN [status |-> 401, id |-> ""]
    ELSE [status |-> 0, id |-> d.sub]

get_current_active_user(id) == IF ~users[id].is_active THEN 400 ELSE 0

\* GET /auth/current_user: the dependencies run first, then the handler's own check
get_current_user(authorization) ==
    LET scheme_failure == oauth2_scheme(authorization)
        current == get_current_user_dependency(authorization[1].cred, now)
        matches == generate_id_from_token(authorization, current.id, now)
        verdict == IF matches.exc # "none" THEN "raised"
                   ELSE IF matches.val THEN "accepted" ELSE "rejected"
        outcome ==
            IF scheme_failure # 0 THEN <<scheme_failure, "none">>
            ELSE IF current.status # 0 THEN <<current.status, "none">>
            ELSE IF get_current_active_user(current.id) # 0
                 THEN <<get_current_active_user(current.id), "none">>
            ELSE IF verdict = "accepted" THEN <<200, verdict>>
            ELSE <<GuardStatus(verdict), verdict>>
    IN
    /\ last' = Response("get_current_user", outcome[1], authorization, outcome[2], None)
    /\ UNCHANGED <<now, tz, requests, issued, search>>
    /\ StorageUnchanged

\* GET /token/verify
verify_token_validity(authorization) ==
    LET verdict == GuardVerdict(authorization) IN
    /\ last' = Response("verify_token_validity",
                        IF verdict = "accepted" THEN 200 ELSE GuardStatus(verdict),
                        authorization, verdict, None)
    /\ UNCHANGED <<now, tz, requests, issued, search>>
    /\ StorageUnchanged

(***************************************************************************)
(* routers/listings.py: image upload, listing creation, update, deletion.  *)
(* An uploaded file is "ok", "unidentified" (PIL cannot open it) or        *)
(* "upload_fails" (the media host raises).                                 *)
(***************************************************************************)
UploadOutcomes == {"ok", "unidentified", "upload_fails"}

FreshImageId(I) == CHOOSE i \in ImageIds \ DOMAIN I : TRUE

\* Integer column written from a form string
BedroomsOf == [x \in {"1", "2", "3", "4", "5"} |->
                 IF x = "1" THEN 1 ELSE IF x = "2" THEN 2 ELSE IF x = "3" THEN 3
                 ELSE IF x = "4" THEN 4 ELSE 5]

\* the row is added to the session and never committed
create_image_record_not_committed(listing_id, L, I) ==
    IF listing_id \notin DOMAIN L
    THEN [exc |-> "IntegrityError", images |-> I]
    ELSE [exc |-> "none", images |-> I]

create_image_record(listing_id, L, I) ==
    IF listing_id \notin DOMAIN L
    THEN [exc |-> "IntegrityError", images |-> I]
    ELSE [exc |-> "none",
          images |-> With(I, FreshImageId(I), ImageRow(listing_id, <<"ik", FreshImageId(I)>>))]

RECURSIVE upload_image_to_imagekit(_, _, _, _)
upload_image_to_imagekit(listing_id, files, L, I) ==
    IF files = <<>> THEN [exc |-> "none", images |-> I]
    ELSE IF Head(files) = "unidentified" THEN [exc |-> "HTTPException", images |-> I]
    ELSE IF Head(files) = "upload_fails" THEN [exc |-> "Exception", images |-> I]
    ELSE LET made == create_image_record(listing_id, L, I) IN
         IF made.exc # "none" THEN made
         ELSE upload_image_to_imagekit(listing_id, Tail(files), L, made.images)

OkCount(files) == Cardinality({i \in DOMAIN files : files[i] = "ok"})

EnoughImageIds(files) == OkCount(files) <= Cardinality(ImageIds \ DOMAIN images)

\* the image rows are left behind
delete_selected_listing_keeps_images(listing_id, ik_ok, L, I) ==
    [exc |-> "none", listings |-> Without(L, {listing_id}), images |-> I]

delete_selected_listing(listing_id, ik_ok, L, I) ==
    LET listing_images == {i \in DOMAIN I : I[i].listing_id = listing_id} IN
    IF listing_images # {} /\ ~ik_ok
    THEN [exc |-> "Exception", listings |-> L, images |-> I]
    ELSE [exc |-> "none", listings |-> Without(L, {listing_id}),
          images |-> Without(I, listing_images)]

\* POST /listings
create_listing(authorization, user_id, apartment_id, listing_type, bedrooms, files) ==
    LET verdict == GuardVerdict(authorization)
        fk_ok == user_id \in DOMAIN users /\ apartment_id \in DOMAIN apartments
    IN
    /\ EnoughImageIds(files)
    /\ IF verdict # "accepted"
       THEN /\ last' = Response("create_listing", GuardStatus(verdict), authorization,
                                verdict, None)
            /\ UNCHANGED <<listings, images>>
       ELSE IF ~fk_ok
       THEN /\ last' = Response("create_listing", 500, authorization, verdict, None)
            /\ UNCHANGED <<listings, images>>
       ELSE \E id \in ListingIds \ DOMAIN listings :
              LET L == With(listings, id,
                            ListingRow(user_id, apartment_id, listing_type,
                                       BedroomsOf[bedrooms]))
                  up == upload_image_to_imagekit(id, files, L, images)
              IN
              /\ listings' = L
              /\ images' = up.images
              /\ last' = Response("create_listing",
                                  IF up.exc = "none" THEN 201 ELSE 500,
                                  authorization, verdict, Some(id))
    /\ UNCHANGED <<now, tz, requests, issued, search, users, apartments>>

\* PUT /listings
update_listing(authorization, listing_id, listing_type, bedrooms, files) ==
    LET verdict == GuardVerdict(authorization)
        L == IF listing_id \in DOMAIN listings
             THEN [listings EXCEPT ![listing_id].listing_type = listing_type,
                                   ![listing_id].bedrooms = BedroomsOf[bedrooms]]
             ELSE listings
        up == upload_image_to_imagekit(listing_id, files, L, images)
    IN
    /\ EnoughImageIds(files)
    /\ IF verdict # "accepted"
       THEN /\ last' = Response("update_listing", GuardStatus(verdict), authorization,
                                verdict, Some(listing_id))
            /\ UNCHANGED <<listings, images>>
       ELSE /\ listings' = L
            /\ images' = up.images
            /\ last' = Response("update_listing", IF up.exc = "none" THEN 201 ELSE 500,
                                authorization, verdict, Some(listing_id))
    /\ UNCHANGED <<now, tz, requests, issued, search, users, apartments>>

\* DELETE /listing/{listing_id}
delete_listing(authorization, listing_id, ik_ok) ==
    LET verdict == GuardVerdict(authorization)
        del == delete_selected_listing(listing_id, ik_ok, listings, images)
    IN
    /\ IF verdict # "accepted"
       THEN /\ last' = Response("delete_listing", GuardStatus(verdict), authorization,
                                verdict, Some(listing_id))
            /\ UNCHANGED <<listings, images>>
       ELSE /\ listings' = del.listings
            /\ images' = del.images
            /\ last' = Response("delete_listing", IF del.exc = "none" THEN 201 ELSE 500,
                                authorization, verdict, Some(listing_id))
    /\ UNCHANGED <<now, tz, requests, issued, search, users, apartments>>

\* DELETE /image/{file_id}; the media host answers "ok", "error" or raises
remove_image_from_imagekit(authorization, file_id, ik_answer) ==
    LET verdict == GuardVerdict(authorization) IN
    /\ IF verdict # "accepted"
       THEN /\ last' = Response("remove_image_from_imagekit", GuardStatus(verdict),
                                authorization, verdict, Some(file_id))
            /\ UNCHANGED images
       ELSE IF ik_answer = "raises"
       THEN /\ last' = Response("remove_image_from_imagekit", 500, authorization, verdict,
                                Some(file_id))
            /\ UNCHANGED images
       ELSE /\ images' = IF ik_answer = "ok"
                         THEN Without(images, {i \in DOMAIN images :
                                                 images[i].imagekit_file_id = file_id})
                         ELSE images
            /\ last' = Response("remove_image_from_imagekit", 201, authorization, verdict,
                                Some(file_id))
    /\ UNCHANGED <<now, tz, requests, issued, search, users, apartments, listings>>

(***************************************************************************)
(* routers/listings.py: the listing filter.                                *)
(***************************************************************************)
get_listings_for_apartment(apartment) ==
    {l \in DOMAIN listings :
        /\ listings[l].apartment_id \in DOMAIN apartments
        /\ apartments[listings[l].apartment_id].name = apartment}

get_listing_images(listing_id) == {i \in DOMAIN images : images[i].listing_id = listing_id}

\* "3+" taken as three or more
filter_listings_three_or_more(type_of_listing, bedrooms, apartment) ==
    IF bedrooms # "" /\ bedrooms # "3+" /\ bedrooms \notin DOMAIN BedroomsOf
    THEN [exc |-> "ValueError", records |-> {}]
    ELSE [exc |-> "none",
          records |->
            {l \in get_listings_for_apartment(apartment) :
                /\ type_of_listing # <<>>
                      => listings[l].listing_type = str_lower(type_of_listing)
                /\ bedrooms # ""
                      => IF bedrooms = "3+" THEN listings[l].bedrooms >= 3
                         ELSE listings[l].bedrooms = BedroomsOf[bedrooms]}]

\* int(bedrooms) raises ValueError on a string that is not a number
filter_listings(type_of_listing, bedrooms, apartment) ==
    IF bedrooms # "" /\ bedrooms # "3+" /\ bedrooms \notin DOMAIN BedroomsOf
    THEN [exc |-> "ValueError", records |-> {}]
    ELSE [exc |-> "none",
          records |->
            {l \in get_listings_for_apartment(apartment) :
                /\ type_of_listing # <<>>
                      => listings[l].listing_type = str_lower(type_of_listing)
                /\ bedrooms # ""
                      => IF bedrooms = "3+" THEN listings[l].bedrooms > 3
                         ELSE listings[l].bedrooms = BedroomsOf[bedrooms]}]

\* GET /listings/filter/{listing_filter}/{apartment}; listing_filter is the JSON
\* object {"typeOfListing": type_of_listing, "bedrooms": bedrooms}
filter_listings_for_apartment(type_of_listing, bedrooms, apartment) ==
    LET request == [typeOfListing |-> type_of_listing, bedrooms |-> bedrooms,
                    apartment |-> apartment]
        filtered == filter_listings(type_of_listing, bedrooms, apartment)
    IN
    /\ last' = IF type_of_listing = <<>> /\ bedrooms = ""
               THEN Answer("filter_listings_for_apartment", 200, "",
                           Some([request |-> request,
                                 results |-> {[id |-> l] :
                                                l \in get_listings_for_apartment(apartment)}]))
               ELSE IF filtered.exc # "none"
               THEN Answer("filter_listings_for_apartment", 500,
                           "Could not fetch the listing",
                           Some([request |-> request, results |-> {}]))
               ELSE Answer("filter_listings_for_apartment", 200, "",
                           Some([request |-> request,
                                 results |-> {[id |-> l, images |-> get_listing_images(l)] :
                                                l \in filtered.records}]))
    /\ UNCHANGED <<now, tz, requests, issued, search>>
    /\ StorageUnchanged

(***************************************************************************)
(* routers/user.py: profile update.                                        *)
(***************************************************************************)
update_user_information(id, name) ==
    IF id \in DOMAIN users THEN [users EXCEPT ![id].name = name] ELSE users

\* PUT /user/update
update_user_profile(authorization, id, name) ==
    LET verdict == GuardVerdict(authorization) IN
    /\ IF verdict # "accepted"
       THEN /\ last' = Response("update_user_profile", GuardStatus(verdict), authorization,
                                verdict, Some(id))
            /\ UNCHANGED users
       ELSE /\ users' = update_user_information(id, name)
            /\ last' = Response("update_user_profile", 201, authorization, verdict, Some(id))
    /\ UNCHANGED <<now, tz, requests, issued, search, apartments, listings, images>>

(***************************************************************************)
(* routers/auth.py: the OTP password reset.  Timestamps are written and    *)
(* compared with datetime.now(), the local clock.                          *)
(***************************************************************************)
OtpCooldownMinutes == 5
OtpValidMinutes == 10

fp_get_email(email) == {u \in DOMAIN users : users[u].email = str_lower(email)}

\* the timestamp is not written
fp_generate_otp_code_only(id, otp) ==
    IF id \in DOMAIN users THEN [users EXCEPT ![id].otp = Some(otp)] ELSE users

fp_generate_otp(id, otp) ==
    IF id \in DOMAIN users
    THEN [users EXCEPT ![id].otp = Some(otp),
                       ![id].otp_generation_timestamp = Some(datetime_now)]
    ELSE users

\* the stored OTP is never looked at
fp_validate_otp_any(otp) == DOMAIN users

fp_validate_otp(otp) == {u \in DOMAIN users : users[u].otp = Some(otp)}

\* the OTP is consumed by the change
fp_change_password_clears_otp(id, password) ==
    IF id \in DOMAIN users
    THEN [users EXCEPT ![id].password = password, ![id].otp = None,
                       ![id].otp_generation_timestamp = None]
    ELSE users

fp_change_password(id, password) ==
    IF id \in DOMAIN users THEN [users EXCEPT ![id].password = password] ELSE users

\* the cooldown test of verify_email_address
otp_requested_too_early(record) ==
    /\ record.otp_generation_timestamp # None
    /\ datetime_now < record.otp_generation_timestamp[1] + OtpCooldownMinutes

\* the window taken as hours
otp_has_expired_hours(record) ==
    datetime_now > record.otp_generation_timestamp[1] + 60 * OtpValidMinutes

\* the expiry test of change_password
otp_has_expired(record) ==
    datetime_now > record.otp_generation_timestamp[1] + OtpValidMinutes

\* GET /email/{email}
verify_email_address(email) ==
    LET found == fp_get_email(email)
        record == users[CHOOSE u \in found : TRUE]
    IN
    /\ last' = IF found = {}
               THEN Answer("verify_email_address", 404, "That email does not exist",
                           Some(email))
               ELSE IF otp_requested_too_early(record)
               THEN Answer("verify_email_address", 425, "Please wait for 5 minutes",
                           Some(email))
               ELSE Answer("verify_email_address", 200, "", Some(email))
    /\ UNCHANGED <<now, tz, requests, issued, search>>
    /\ StorageUnchanged

\* PUT /otp/{id}; otp is the value secrets.token_hex(3).upper() draws
generate_otp(id, otp) ==
    /\ users' = fp_generate_otp(id, otp)
    /\ last' = Answer("generate_otp", 201, "Otp generated", Some(id))
    /\ UNCHANGED <<now, tz, requests, issued, search, apartments, listings, images>>

\* PUT /user/password/{id}
change_password(id, otp, password) ==
    LET request == Some([id |-> id, otp |-> otp, password |-> password]) IN
    /\ IF id \notin DOMAIN users                               \* None.otp_generation_timestamp
       THEN /\ last' = Answer("change_password", 500, "AttributeError", request)
            /\ UNCHANGED users
       ELSE IF users[id].otp_generation_timestamp = None       \* None + timedelta
       THEN /\ last' = Answer("change_password", 500, "TypeError", request)
            /\ UNCHANGED users
       ELSE IF otp_has_expired(users[id])
       THEN /\ last' = Answer("change_password", 400, "Otp has expired", request)
            /\ UNCHANGED users
       ELSE IF fp_validate_otp(otp) = {}
       THEN /\ last' = Answer("change_password", 400, "Incorrect otp", request)
            /\ UNCHANGED users
       ELSE /\ users' = fp_change_password(id, get_password_hash(password))
            /\ last' = Answer("change_password", 201, "Password changed successfully",
                              request)
    /\ UNCHANGED <<now, tz, requests, issued, search, apartments, listings, images>>

(***************************************************************************)
(* routers/user.py: registration and account deletion.                     *)
(***************************************************************************)
\* the lookup made without lower-casing the address
check_for_existing_email_as_typed(email) == {u \in DOMAIN users : users[u].email = email}

check_for_existing_email(email) == {u \in DOMAIN users : users[u].email = str_lower(email)}

\* the table has no unique constraint
create_new_user_no_unique_constraint(id, name, email, password) ==
    [exc |-> "none",
     users |-> With(users, id,
                    UserRow(str_title(name), str_lower(email), get_password_hash(password)))]

\* INSERT INTO users; the column email is UNIQUE
create_new_user(id, name, email, password) ==
    IF \E u \in DOMAIN users : users[u].email = str_lower(email)
    THEN [exc |-> "IntegrityError", users |-> users]
    ELSE [exc |-> "none",
          users |-> With(users, id,
                         UserRow(str_title(name), str_lower(email),
                                 get_password_hash(password)))]

\* POST /user
register_user(name, email, password) ==
    LET request == Some([name |-> name, email |-> email, password |-> password]) IN
    /\ IF check_for_existing_email(email) # {}
       THEN /\ last' = Answer("register_user", 201, "already exists", request)
            /\ UNCHANGED <<users, issued>>
       ELSE \E id \in UserIds \ DOMAIN users :
              LET made == create_new_user(id, name, email, password)
                  token == create_access_token([sub |-> id], now)
              IN
              IF made.exc # "none"
              THEN /\ last' = Answer("register_user", 500, "Could not register user",
                                     request)
                   /\ UNCHANGED <<users, issued>>
              ELSE /\ users' = made.users
                   /\ issued' \in Kept([sub |-> id, at |-> now, token |-> token])
                   /\ last' = Answer("register_user", 201, "registered", request)
    /\ UNCHANGED <<now, tz, requests, search, apartments, listings, images>>

(***************************************************************************)
(* register_user calls that overlap in time.  A call is two database       *)
(* statements: the SELECT of check_for_existing_email and the INSERT of    *)
(* create_new_user; statements of other calls may run between them.        *)
(***************************************************************************)
RequestIds == {"r1", "r2"}

NoRequest == [pc |-> "idle", user |-> None, outcome |-> ""]

NoRequests == [r \in RequestIds |-> NoRequest]

\* register_user from its start to the answer of check_for_existing_email
register_user_check(r, name, email, password) ==
    LET user == [name |-> name, email |-> email, password |-> password] IN
    /\ requests[r].pc = "idle"
    /\ IF check_for_existing_email(email) # {}
       THEN /\ requests' = [requests EXCEPT ![r] = [pc |-> "done", user |-> Some(user),
                                                     outcome |-> "already exists"]]
            /\ last' = Answer("register_user", 201, "already exists", Some(user))
       ELSE /\ requests' = [requests EXCEPT ![r] = [pc |-> "checked", user |-> Some(user),
                                                     outcome |-> ""]]
            /\ UNCHANGED last
    /\ UNCHANGED <<now, tz, search, users, issued, apartments, listings, images>>

\* register_user from create_new_user to its response
register_user_create(r) ==
    LET user == requests[r].user[1] IN
    /\ requests[r].pc = "checked"
    /\ \E id \in UserIds \ DOMAIN users :
          LET made == create_new_user(id, user.name, user.email, user.password)
              token == create_access_token([sub |-> id], now)
          IN
          IF made.exc # "none"
          THEN /\ requests' = [requests EXCEPT ![r].pc = "done",
                                               ![r].outcome = "Could not register user"]
               /\ last' = Answer("register_user", 500, "Could not register user",
                                 Some(user))
               /\ UNCHANGED <<users, issued>>
          ELSE /\ requests' = [requests EXCEPT ![r].pc = "done",
                                               ![r].outcome = "registered"]
               /\ users' = made.users
               /\ issued' \in Kept([sub |-> id, at |-> now, token |-> token])
               /\ last' = Answer("register_user", 201, "registered", Some(user))
    /\ UNCHANGED <<now, tz, search, apartments, listings, images>>

\* the listings of `order` are deleted one after the other; each deletion commits
RECURSIVE delete_listings_in_order(_, _, _, _)
delete_listings_in_order(order, ik_ok, L, I) ==
    IF order = <<>> THEN [exc |-> "none", listings |-> L, images |-> I]
    ELSE LET del == delete_selected_listing(Head(order), ik_ok, L, I) IN
         IF del.exc # "none" THEN del
         ELSE delete_listings_in_order(Tail(order), ik_ok, del.listings, del.images)

Orders(S) ==
    {f \in [1..Cardinality(S) -> S] : \A i, j \in 1..Cardinality(S) : f[i] = f[j] => i = j}

\* `order` is the order in which the query returns the user's listing ids
delete_selected_user(user_id, order, ik_ok) ==
    LET del == delete_listings_in_order(order, ik_ok, listings, images) IN
    [exc |-> del.exc, listings |-> del.listings, images |-> del.images,
     users |-> IF del.exc = "none" THEN Without(users, {user_id}) ELSE users]

\* DELETE /user/delete/{user_id}
delete_user(user_id, ik_ok) ==
    \E order \in Orders({l \in DOMAIN listings : listings[l].user_id = user_id}) :
        LET del == delete_selected_user(user_id, order, ik_ok) IN
        /\ users' = del.users
        /\ listings' = del.listings
        /\ images' = del.images
        /\ last' = IF del.exc = "none"
                   THEN Answer("delete_user", 201, "User deleted", Some(user_id))
                   ELSE Answer("delete_user", 500, "Could not delete user", Some(user_id))
        /\ UNCHANGED <<now, tz, requests, issued, search, apartments>>

(***************************************************************************)
(* routers/user.py: the listings of a user.                                *)
(***************************************************************************)
get_listings_for_a_user(user_id) ==
    {l \in DOMAIN listings :
        /\ listings[l].apartment_id \in DOMAIN apartments
        /\ listings[l].user_id = user_id}

\* the loop of get_user_listings over the listings from position k of `order`.
\* image_list is the one list object made before the loop: every entry of a
\* listing that has images holds a reference to it ("image_list"), an entry of a
\* listing without images holds a list of its own ("empty").
RECURSIVE user_listings_loop(_, _, _, _)
user_listings_loop(order, k, image_list, listings_list) ==
    IF k > Len(order) THEN [image_list |-> image_list, listings_list |-> listings_list]
    ELSE LET found == get_listing_images(order[k])
             entry == [id |-> order[k],
                       images |-> IF found = {} THEN "empty" ELSE "image_list"]
         IN user_listings_loop(order, k + 1, image_list \cup found,
                               Append(listings_list, entry))

\* GET /user/listings/{user_id}; the response is serialised after the loop
get_user_listings(user_id) ==
    \E order \in Orders(get_listings_for_a_user(user_id)) :
        LET done == user_listings_loop(order, 1, {}, <<>>)
            body == {[id |-> done.listings_list[k].id,
                      images |-> IF done.listings_list[k].images = "empty" THEN {}
                                 ELSE done.image_list] : k \in DOMAIN done.listings_list}
        IN
        /\ last' = Answer("get_user_listings", 200, "", Some([user_id |-> user_id,
                                                              listings |-> body]))
        /\ UNCHANGED <<now, tz, requests, issued, search>>
        /\ StorageUnchanged

(***************************************************************************)
(* routers/apartments.py: apartment creation.                              *)
(***************************************************************************)
FreshApartmentIds == ApartmentIds \ DOMAIN apartments

\* POST /apartment; the postal service answers "Success", "Error" or raises
create_new_apartment(name, pincode, postal) ==
    /\ IF postal = "raises"
       THEN /\ last' = Answer("create_new_apartment", 500,
                              "Could not create the apartment record", Some(name))
            /\ UNCHANGED apartments
       ELSE \E id \in FreshApartmentIds :
              /\ apartments' =
                    With(apartments, id,
                         ApartmentRow(str_title(name), pincode,
                                      IF postal = "Success" THEN <<"C">>
                                      ELSE <<"C", "i", "t", "y", " ", "n", "o", "t", " ",
                                             "f", "o", "u", "n", "d">>))
              /\ last' = Answer("create_new_apartment", 201, "", Some(name))
    /\ UNCHANGED <<now, tz, requests, issued, search, users, listings, images>>

(***************************************************************************)
(* routers/apartments.py: the apartment search.                            *)
(***************************************************************************)
The == <<"T", "h", "e">>
Green == <<"G", "r", "e", "e", "n">>
Meadows == <<"M", "e", "a", "d", "o", "w", "s">>

\* " ".join(words)
RECURSIVE str_join(_)
str_join(words) ==
    IF Len(words) = 0 THEN <<>>
    ELSE IF Len(words) = 1 THEN words[1]
    ELSE words[1] \o <<" ">> \o str_join(Tail(words))

GreenMeadows == str_join(<<Green, Meadows>>)

\* helpers/stop_words.py
stop_words == {The}

\* list.remove(word): the first occurrence goes
list_remove(lst, word) ==
    LET k == CHOOSE i \in DOMAIN lst : lst[i] = word /\ \A j \in 1..(i - 1) : lst[j] # word
    IN SubSeq(lst, 1, k - 1) \o SubSeq(lst, k + 1, Len(lst))

\* `for word in search_string` from the iterator's position i (counted from 1),
\* with the removals made on the list that is being iterated
RECURSIVE remove_words(_, _, _)

\* every word of `words` is taken out, as a loop over a copy of the list would do
remove_words_from_a_copy(search_string, i, words) ==
    SelectSeq(search_string, LAMBDA w : w \notin words)

remove_words(search_string, i, words) ==
    IF i > Len(search_string) THEN search_string
    ELSE IF search_string[i] \in words
    THEN remove_words(list_remove(search_string, search_string[i]), i + 1, words)
    ELSE remove_words(search_string, i + 1, words)

remove_stop_words(search_string, i) == remove_words(search_string, i, stop_words)

\* word[:3]
first_three(word) == SubSeq(word, 1, IF Len(word) < 3 THEN Len(word) ELSE 3)

\* search_string[0] when one token is left, search_string[1] otherwise
selected_index(search_string) == IF Len(search_string) = 1 THEN 0 ELSE 1

selected_token(search_string) == search_string[selected_index(search_string) + 1]

IsPrefix(p, w) == Len(p) <= Len(w) /\ SubSeq(w, 1, Len(p)) = p

\* name_token @@ to_tsquery('<prefix>:*') AND pincode = :pincode
matching_apartments(prefix, pincode) ==
    {a \in DOMAIN apartments :
        /\ \E lexeme \in apartments[a].name_token : IsPrefix(str_lower(prefix), lexeme)
        /\ apartments[a].pincode = pincode}

\* the test is skipped
name_is_falsy_never(name) == FALSE

\* `not name`
name_is_falsy(name) == name = <<>>

\* GET /search/apartment
search_apartments(name, pincode) ==
    LET split == str_split(name)
        search_string == IF Len(split) > 1 THEN remove_stop_words(split, 1) ELSE split
        prefix == first_three(selected_token(search_string))
        status == IF Len(search_string) = 0 THEN 500
                  ELSE IF prefix = <<>> THEN 500 ELSE 200
    IN
    /\ IF name_is_falsy(name)
       THEN /\ search' = [name |-> name, pincode |-> pincode, search_string |-> <<>>,
                          pattern |-> None, status |-> 200]
            /\ last' = Answer("search_apartments", 200, "None", None)
       ELSE /\ search' = [name |-> name, pincode |-> pincode,
                          search_string |-> search_string,
                          pattern |-> IF Len(search_string) = 0 THEN None
                                      ELSE Some(prefix),
                          status |-> status]
            /\ last' = Answer("search_apartments", status,
                              IF status = 200 THEN "" ELSE "Could not search apartments",
                              IF status = 200
                              THEN Some(matching_apartments(prefix, pincode))
                              ELSE None)
    /\ UNCHANGED <<now, tz, requests, issued>>
    /\ StorageUnchanged

(***************************************************************************)
(* A populated database, as register_user and create_new_apartment leave   *)
(* it: two users and one apartment.                                        *)
(***************************************************************************)
EmailA == <<"a", "@", "c">>
EmailB == <<"b", "@", "c">>
NameA == <<"A", "b">>
NameB == <<"B", "a">>
Pincode1 == <<"5", "0">>
Pincode2 == <<"6", "0">>

RegisteredUsers ==
    [u \in UserIds |->
        IF u = "u1" THEN UserRow(NameA, EmailA, get_password_hash("pw1"))
        ELSE UserRow(NameB, EmailB, get_password_hash("pw2"))]

StoredApartments == [a \in ApartmentIds |-> ApartmentRow(GreenMeadows, Pincode1, <<"C">>)]

NoSearch ==
    [name |-> <<>>, pincode |-> <<>>, search_string |-> <<>>, pattern |-> None,
     status |-> 0]

\* a second apartment, and a listing with one image that u1 has created
Heights == <<"H", "e", "i", "g", "h", "t", "s">>
GreenHeights == str_join(<<Green, Heights>>)

TwoApartments ==
    [a \in {"a1", "a2"} |->
        IF a = "a1" THEN ApartmentRow(GreenMeadows, Pincode1, <<"C">>)
        ELSE ApartmentRow(GreenHeights, Pincode1, <<"C">>)]

StoredListings == [l \in {"l0"} |-> ListingRow("u1", "a1", Rent, 4)]

StoredImages == [i \in {"i0"} |-> ImageRow("l0", <<"ik", "i0">>)]

\* the headers that carry a token the server has issued
IssuedHeaders == {Bearer(g.token) : g \in issued}

(***************************************************************************)
(* What a client can put into the Authorization header: a token it was     *)
(* given, or one it signed itself with another key.                        *)
(***************************************************************************)
ForgedTokens == {jwt_encode([sub |-> "u1", exp |-> 1000, iat |-> 0], OTHER_KEY)}

Credentials == {g.token : g \in issued} \cup ForgedTokens

Schemes == {"Bearer", "bearer", "Basic"}

Headers == {None} \cup {Header(s, c) : s \in Schemes, c \in Credentials}

BearerHeaders == {None} \cup {Bearer(c) : c \in Credentials}

(***************************************************************************)
(* SpecToken: the token service alone: issuing, the clock, the two         *)
(* endpoints that only validate a token.                                   *)
(***************************************************************************)
InitToken ==
    /\ now = 0
    /\ tz \in TzOffsets
    /\ users = RegisteredUsers
    /\ apartments = StoredApartments
    /\ listings = <<>>
    /\ images = <<>>
    /\ issued = {}
    /\ last = Idle
    /\ search = NoSearch
    /\ requests = NoRequests

NextToken ==
    \/ Tick(MaxTime)
    \/ \E e \in {EmailA, EmailB, <<"A", "@", "c">>, <<"c", "@", "c">>}, p \in Passwords :
          login(e, p)
    \/ \E h \in Headers : verify_token_validity(h)
    \/ \E h \in Headers : get_current_user(h)

SpecToken == InitToken /\ [][NextToken]_vars

(***************************************************************************)
(* SpecGuard: the token service and the operations behind the guard.       *)
(***************************************************************************)
InitGuard ==
    /\ now = 0
    /\ tz \in TzOffsets
    /\ users = RegisteredUsers
    /\ apartments = StoredApartments
    /\ listings = <<>>
    /\ images = <<>>
    /\ issued = {}
    /\ last = Idle
    /\ search = NoSearch
    /\ requests = NoRequests

NextGuard ==
    \/ Tick(MaxTime)
    \/ \E e \in {EmailA, EmailB, <<"A", "@", "c">>, <<"c", "@", "c">>}, p \in Passwords :
          login(e, p)
    \/ \E h \in Headers : verify_token_validity(h)
    \/ \E h \in Headers : get_current_user(h)
    \/ \E h \in Headers, u \in UserIds, f \in {<<>>, <<"ok">>} :
          create_listing(h, u, "a1", Rent, "2", f)
    \/ \E h \in Headers, l \in ListingIds, f \in {<<>>, <<"ok">>} :
          update_listing(h, l, Sale, "4", f)
    \/ \E h \in Headers, l \in ListingIds, ok \in BOOLEAN : delete_listing(h, l, ok)
    \/ \E h \in Headers, i \in ImageIds, a \in {"ok", "error", "raises"} :
          remove_image_from_imagekit(h, <<"ik", i>>, a)
    \/ \E h \in Headers, u \in UserIds : update_user_profile(h, u, NameA)

SpecGuard == InitGuard /\ [][NextGuard]_vars

(***************************************************************************)
(* Claims about the token service (SpecToken) and the guard (SpecGuard).   *)
(***************************************************************************)
GuardedOps ==
    {"verify_token_validity", "create_listing", "update_listing", "delete_listing",
     "remove_image_from_imagekit", "update_user_profile", "get_current_user"}

\* C1: a token issued for subject X at time t decodes, as "Bearer <token>", to
\* claims with sub = X at every time before t + ACCESS_TOKEN_EXPIRE_MINUTES, and
\* decoding fails at every time after t + ACCESS_TOKEN_EXPIRE_MINUTES.
C1_TokenRoundTrip ==
    \A g \in issued :
        LET d == decode_token(Bearer(g.token), now) IN
        /\ now < g.at + ACCESS_TOKEN_EXPIRE_MINUTES
              => d.exc = "none" /\ d.isdict /\ d.sub = g.sub
        /\ now > g.at + ACCESS_TOKEN_EXPIRE_MINUTES => d.exc # "none"

\* an issued token was presented after its expiry and refused
C1_Witness ==
    \E g \in issued :
        /\ now > g.at + ACCESS_TOKEN_EXPIRE_MINUTES
        /\ last.op = "verify_token_validity"
        /\ last.header = Bearer(g.token)
        /\ last.status = 401

\* C2: generate_id_from_token(token, user_id) is true iff the token's sub equals
\* str(user_id) and the token has not expired: true for the subject right after
\* issuance, false for any other candidate, false once the expiry minutes have
\* elapsed; /auth/current_user answers 401 exactly when it is false.
C2_MatchesSubject ==
    /\ \A g \in issued : \A y \in UserIds :
          LET r == generate_id_from_token(Bearer(g.token), y, now) IN
          /\ r.exc = "none"
          /\ (now = g.at /\ y = g.sub) => r.val
          /\ y # g.sub => ~r.val
          /\ now > g.at + ACCESS_TOKEN_EXPIRE_MINUTES => ~r.val
    /\ (last.op = "get_current_user" /\ last.guard # "none")
          => (last.status = 401 <=> last.guard = "rejected")

\* C3: a request to a guarded operation whose Authorization header is absent, or
\* present without the Bearer scheme, is answered 401 and with no other error.
C3_MissingOrNonBearerIs401 ==
    (/\ last.op \in GuardedOps
     /\ \/ last.header = None
        \/ str_lower(<<last.header[1].scheme>>) # <<"bearer">>)
        => last.status = 401

\* C4: a request to a guarded operation with a Bearer token whose signature is
\* invalid, or whose expiry has passed, is answered 401.
C4_BadSignatureOrExpiredIs401 ==
    (/\ last.op \in GuardedOps
     /\ last.header # None
     /\ last.header[1].scheme = "Bearer"
     /\ \/ last.header[1].cred.sig # SECRET_KEY
        \/ last.header[1].cred.exp < now)
        => last.status = 401

(***************************************************************************)
(* SpecOtp: the password-reset flow of two registered users.               *)
(***************************************************************************)
InitOtp ==
    /\ now = 0
    /\ tz \in TzOffsets
    /\ users = RegisteredUsers
    /\ apartments = StoredApartments
    /\ listings = <<>>
    /\ images = <<>>
    /\ issued = {}
    /\ last = Idle
    /\ search = NoSearch
    /\ requests = NoRequests

NextOtp ==
    \/ Tick(MaxOtpTime)
    \/ \E e \in {EmailA, <<"B", "@", "c">>, <<"c", "@", "c">>} : verify_email_address(e)
    \/ \E u \in UserIds, o \in OtpValues : generate_otp(u, o)
    \/ \E u \in UserIds, o \in OtpValues, p \in Passwords : change_password(u, o, p)

SpecOtp == InitOtp /\ [][NextOtp]_vars

(***************************************************************************)
(* Claims about the OTP flow, under SpecOtp.  A step whose last' names an  *)
(* operation is a step of that operation, taken at the time `now`.         *)
(***************************************************************************)
OtpRequestFor(u) ==
    \/ last'.op = "generate_otp" /\ last'.arg = Some(u)
    \/ last'.op = "verify_email_address" /\ u \in fp_get_email(last'.arg[1])

\* C6: in any sequence of verify_email_address and generate_otp requests, a
\* request for a new OTP made less than 5 minutes after the user's previous OTP
\* issuance fails with 425 Too Early and replaces neither the OTP nor its timestamp.
C6_CooldownHolds ==
    [][\A u \in DOMAIN users :
          (/\ OtpRequestFor(u)
           /\ users[u].otp_generation_timestamp # None
           /\ datetime_now < users[u].otp_generation_timestamp[1] + OtpCooldownMinutes)
          => /\ last'.status = 425
             /\ users'[u].otp = users[u].otp
             /\ users'[u].otp_generation_timestamp = users[u].otp_generation_timestamp]_vars

ChangePasswordFor(u) == last'.op = "change_password" /\ last'.arg[1].id = u

\* C7: change_password for user U more than 10 minutes after U's
\* otp_generation_timestamp is rejected with "Otp has expired" and leaves U's
\* password unchanged, whatever OTP is supplied, U's stored OTP included.
C7_ExpiredOtpRejected ==
    [][\A u \in DOMAIN users :
          (/\ ChangePasswordFor(u)
           /\ users[u].otp_generation_timestamp # None
           /\ datetime_now > users[u].otp_generation_timestamp[1] + OtpValidMinutes)
          => /\ last'.status = 400
             /\ last'.detail = "Otp has expired"
             /\ users'[u].password = users[u].password]_vars

\* the stored OTP itself was supplied after the window and refused
C7_Witness ==
    /\ last.op = "change_password"
    /\ last.detail = "Otp has expired"
    /\ last.arg[1].id \in DOMAIN users
    /\ users[last.arg[1].id].otp = Some(last.arg[1].otp)
    /\ users[last.arg[1].id].password # get_password_hash(last.arg[1].password)
    /\ datetime_now > users[last.arg[1].id].otp_generation_timestamp[1] + OtpValidMinutes

\* C8: change_password inside the 10-minute window with an OTP that is the stored
\* otp of no user is rejected with "Incorrect otp" and leaves every password unchanged.
C8_UnknownOtpRejected ==
    [][\A u \in DOMAIN users :
          (/\ ChangePasswordFor(u)
           /\ users[u].otp_generation_timestamp # None
           /\ ~(datetime_now > users[u].otp_generation_timestamp[1] + OtpValidMinutes)
           /\ \A v \in DOMAIN users : users[v].otp # Some(last'.arg[1].otp))
          => /\ last'.status = 400
             /\ last'.detail = "Incorrect otp"
             /\ \A v \in DOMAIN users : users'[v].password = users[v].password]_vars

\* an OTP nobody holds was supplied inside the window and refused
C8_Witness ==
    /\ last.op = "change_password"
    /\ last.detail = "Incorrect otp"
    /\ last.arg[1].id \in DOMAIN users
    /\ users[last.arg[1].id].otp_generation_timestamp # None
    /\ ~otp_has_expired(users[last.arg[1].id])
    /\ \A v \in DOMAIN users : users[v].otp # Some(last.arg[1].otp)
    /\ users[last.arg[1].id].password # get_password_hash(last.arg[1].password)

\* C17: for every user, in every reachable state, otp is set iff
\* otp_generation_timestamp is set; a step that changes either field of a user is
\* an OTP issuance for that user, and every issuance writes both, the timestamp
\* being the time of the issuance.
C17_OtpAndTimestampTogether ==
    /\ [](\A u \in DOMAIN users :
            users[u].otp = None <=> users[u].otp_generation_timestamp = None)
    /\ [][\A u \in DOMAIN users \cap DOMAIN users' :
            /\ (\/ users'[u].otp # users[u].otp
                \/ users'[u].otp_generation_timestamp # users[u].otp_generation_timestamp)
                  => last'.op = "generate_otp" /\ last'.arg = Some(u)
            /\ (last'.op = "generate_otp" /\ last'.arg = Some(u))
                  => /\ users'[u].otp # None
                     /\ users'[u].otp_generation_timestamp = Some(datetime_now)]_vars

\* u1 has just been issued an OTP, not the first one; u2 never asked for one
C17_Witness ==
    /\ last.op = "generate_otp"
    /\ last.arg = Some("u1")
    /\ now > 0
    /\ users["u1"].otp = Some("D4E5F6")
    /\ users["u1"].otp_generation_timestamp = Some(datetime_now)
    /\ users["u2"].otp = None
    /\ users["u2"].otp_generation_timestamp = None

\* C18: a successful change_password changes the user's password hash and nothing
\* else, the otp and its timestamp included; and change_password succeeds whenever
\* the user's issuance is at most 10 minutes old and the OTP is a stored one, so a
\* second change with the same OTP inside the window succeeds as well.
C18_OtpNotConsumed ==
    [][\A u \in DOMAIN users :
          ChangePasswordFor(u) =>
            /\ last'.status = 201
                  => users' = [users EXCEPT
                                 ![u].password = get_password_hash(last'.arg[1].password)]
            /\ (/\ users[u].otp_generation_timestamp # None
                /\ ~(datetime_now > users[u].otp_generation_timestamp[1] + OtpValidMinutes)
                /\ users[u].otp = Some(last'.arg[1].otp))
                  => last'.status = 201]_vars

\* a password was changed, minutes after the issuance, to a value other than the
\* one the user registered with, and the OTP that authorised it is still stored
C18_Witness ==
    /\ last.op = "change_password"
    /\ last.status = 201
    /\ last.arg[1].id = "u2"
    /\ last.arg[1].password = "pw1"
    /\ users["u2"].password = get_password_hash("pw1")
    /\ users["u2"].otp = Some(last.arg[1].otp)
    /\ datetime_now > users["u2"].otp_generation_timestamp[1]
    /\ ~otp_has_expired(users["u2"])

\* C22: change_password(id = U, otp = c) succeeds and replaces U's password only
\* when c is the OTP stored on U's own row and U's issuance is at most 10 minutes
\* old; the OTP of another user never authorises a change for U.
C22_OtpBoundToItsUser ==
    [][\A u \in DOMAIN users :
          (ChangePasswordFor(u) /\ last'.status = 201)
            => /\ users[u].otp = Some(last'.arg[1].otp)
               /\ users[u].otp_generation_timestamp # None
               /\ ~(datetime_now > users[u].otp_generation_timestamp[1] + OtpValidMinutes)]_vars

(***************************************************************************)
(* SpecMutation: every endpoint that writes to storage.                    *)
(***************************************************************************)
InitMutation ==
    /\ now = 0
    /\ tz \in TzOffsets
    /\ users = RegisteredUsers
    /\ apartments = <<>>
    /\ listings = <<>>
    /\ images = <<>>
    /\ issued = {}
    /\ last = Idle
    /\ search = NoSearch
    /\ requests = NoRequests

NextMutation ==
    \/ \E e \in {EmailA, EmailB} : login(e, IF e = EmailA THEN "pw1" ELSE "pw2")
    \/ \E h \in BearerHeaders, u \in UserIds, f \in {<<>>, <<"ok">>} :
          create_listing(h, u, "a1", Rent, "2", f)
    \/ \E h \in BearerHeaders, l \in ListingIds : update_listing(h, l, Sale, "4", <<>>)
    \/ \E h \in BearerHeaders, l \in ListingIds, ok \in BOOLEAN : delete_listing(h, l, ok)
    \/ \E h \in BearerHeaders, i \in ImageIds : remove_image_from_imagekit(h, <<"ik", i>>, "ok")
    \/ \E h \in BearerHeaders, u \in UserIds : update_user_profile(h, u, NameB)
    \/ \E p \in {"Success", "raises"} : create_new_apartment(GreenMeadows, Pincode1, p)
    \/ \E e \in {EmailA, <<"C", "@", "c">>} : register_user(NameA, e, "pw1")
    \/ \E u \in UserIds, ok \in BOOLEAN : delete_user(u, ok)
    \/ \E u \in UserIds : generate_otp(u, "A1B2C3")
    \/ \E u \in UserIds : change_password(u, "A1B2C3", "pw2")

SpecMutation == InitMutation /\ [][NextMutation]_vars

StorageChanges ==
    <<users, apartments, listings, images>>' # <<users, apartments, listings, images>>

\* C5: every mutation endpoint changes stored User, Apartment, Listing or
\* ListingImage rows only after the guard has decoded and accepted the request's
\* bearer token; no request without a valid token changes storage.
C5_MutationsBehindGuard == [][StorageChanges => last'.guard = "accepted"]_vars

(***************************************************************************)
(* SpecRegister: registration, login and deletion from an empty database.  *)
(***************************************************************************)
InitRegister ==
    /\ now = 0
    /\ tz \in TzOffsets
    /\ users = <<>>
    /\ apartments = <<>>
    /\ listings = <<>>
    /\ images = <<>>
    /\ issued = {}
    /\ last = Idle
    /\ search = NoSearch
    /\ requests = NoRequests

TypedEmails == {EmailA, <<"A", "@", "c">>, <<"a", "@", "C">>, EmailB, <<"B", "@", "C">>}

NextRegister ==
    \/ \E n \in {NameA, <<"b", "A">>}, e \in TypedEmails, p \in Passwords :
          register_user(n, e, p)
    \/ \E e \in TypedEmails, p \in Passwords : login(e, p)
    \/ \E u \in UserIds : delete_user(u, TRUE)

SpecRegister == InitRegister /\ [][NextRegister]_vars

\* C9: register_user with an email equal, ignoring case, to an existing user's
\* email returns the 'already exists' message, creates no User row, issues no
\* token and raises no error.
C9_DuplicateEmailIsAMessage ==
    [][(/\ last'.op = "register_user"
        /\ \E v \in DOMAIN users :
              str_lower(users[v].email) = str_lower(last'.arg[1].email))
       => /\ last'.detail = "already exists"
          /\ last'.status < 400
          /\ users' = users
          /\ issued' = issued]_vars

\* an address typed in another casing than the stored one was turned away
C9_Witness ==
    /\ last.op = "register_user"
    /\ last.detail = "already exists"
    /\ \E v \in DOMAIN users :
          /\ users[v].email # last.arg[1].email
          /\ users[v].email = str_lower(last.arg[1].email)
    /\ Cardinality(DOMAIN users) = 1

(***************************************************************************)
(* SpecSearch: searches over a stored apartment.                           *)
(***************************************************************************)
QueryWords == {The, Green, Meadows, <<>>}

Queries ==
    {<<>>} \cup
    {str_join(ws) : ws \in UNION {[1..n -> QueryWords] : n \in 1..MaxQueryWords}}

InitSearch ==
    /\ now = 0
    /\ tz \in TzOffsets
    /\ users = RegisteredUsers
    /\ apartments = StoredApartments
    /\ listings = <<>>
    /\ images = <<>>
    /\ issued = {}
    /\ last = Idle
    /\ search = NoSearch
    /\ requests = NoRequests

NextSearch == \E q \in Queries, p \in {Pincode1, Pincode2} : search_apartments(q, p)

SpecSearch == InitSearch /\ [][NextSearch]_vars

NotStopWord(w) == w \notin stop_words

\* the tokens of a query once every stop word is taken out (when it has several)
RemainingTokens(name) ==
    IF Len(str_split(name)) > 1 THEN SelectSeq(str_split(name), NotStopWord)
    ELSE str_split(name)

\* C10: for every non-empty query the prefix pattern is the first three characters
\* (fewer if the token is shorter) of the only remaining token when exactly one
\* token remains after stop-word removal, and of the second remaining token when
\* more than one remains.
C10_PrefixFromRemainingTokens ==
    (last.op = "search_apartments" /\ search.name # <<>>)
        => LET remaining == RemainingTokens(search.name) IN
           /\ Len(remaining) = 1 => search.pattern = Some(first_three(remaining[1]))
           /\ Len(remaining) > 1 => search.pattern = Some(first_three(remaining[2]))

\* C11: for every query that splits into more than one token, the tokens left by
\* the stop-word removal step are exactly the query's tokens that are not stop
\* words, in their original order: no stop word is left.
C11_StopWordsRemoved ==
    (last.op = "search_apartments" /\ Len(str_split(search.name)) > 1)
        => search.search_string = SelectSeq(str_split(search.name), NotStopWord)

\* C12: search_apartments with an empty name answers with an empty result, makes
\* no storage query and reports no error, whatever the pincode.
C12_EmptyNameIsNoError ==
    (last.op = "search_apartments" /\ search.name = <<>>)
        => /\ last.status = 200
           /\ last.detail = "None"
           /\ last.arg = None
           /\ search.pattern = None

\* an empty name was searched for, after a search that did query the index
C12_Witness ==
    /\ last.op = "search_apartments"
    /\ search.name = <<>>
    /\ search.pincode = Pincode2
    /\ last.status = 200

\* the stored apartments with the requested pincode and an indexed name component
\* that begins with the prefix
ExpectedMatches(prefix, pincode) ==
    {a \in DOMAIN apartments :
        /\ apartments[a].pincode = pincode
        /\ \E lexeme \in apartments[a].name_token : IsPrefix(str_lower(prefix), lexeme)}

\* C13: for every non-empty query and pincode the answer is exactly the stored
\* apartments with that pincode and an indexed name component beginning with the
\* computed prefix; it is the empty collection, never null, when there is none.
C13_ExactMatches ==
    (last.op = "search_apartments" /\ search.name # <<>>)
        => /\ last.status = 200
           /\ last.arg # None
           /\ last.arg = Some(ExpectedMatches(search.pattern[1], search.pincode))

\* C23: for every non-empty query and every set of stop words, the removal loop
\* ends with at least one token left and the token selection stays inside the
\* list: index 0 is used exactly when one token remains, index 1 only when at
\* least two remain.
C23_SelectionInRange ==
    (last.op = "search_apartments" /\ search.name # <<>>)
        => /\ Len(search.search_string) >= 1
           /\ \A words \in SUBSET QueryWords :
                 LET split == str_split(search.name)
                     left == IF Len(split) > 1 THEN remove_words(split, 1, words) ELSE split
                 IN
                 /\ Len(left) >= 1
                 /\ selected_index(left) < Len(left)
                 /\ selected_index(left) = 0 <=> Len(left) = 1
                 /\ selected_index(left) = 1 => Len(left) >= 2

\* every token of the query is a stop word, and one of them is left and selected
C23_Witness ==
    /\ last.op = "search_apartments"
    /\ search.name = str_join(<<The, The>>)
    /\ search.search_string = <<The>>
    /\ search.pattern = Some(The)

\* C24: for every non-empty query, with leading, trailing or doubled spaces too,
\* the prefix given to the index match is a non-empty string, the beginning of a
\* non-empty word of the query.
C24_PrefixNotEmpty ==
    (last.op = "search_apartments" /\ search.name # <<>>)
        => /\ search.pattern # None
           /\ search.pattern[1] # <<>>
           /\ \E k \in DOMAIN str_split(search.name) :
                 /\ str_split(search.name)[k] # <<>>
                 /\ IsPrefix(search.pattern[1], str_split(search.name)[k])

(***************************************************************************)
(* SpecFilter: listings are created and updated with the listing types and *)
(* bedroom counts a client can send, and filtered.                         *)
(***************************************************************************)
InitFilter ==
    /\ now = 0
    /\ tz \in TzOffsets
    /\ users = RegisteredUsers
    /\ apartments = TwoApartments
    /\ listings = StoredListings
    /\ images = StoredImages
    /\ issued = {}
    /\ last = Idle
    /\ search = NoSearch
    /\ requests = NoRequests

RentTitle == <<"R", "e", "n", "t">>
RentUpper == <<"R", "E", "N", "T">>

ListingTypes == {Rent, RentTitle, Sale, Lease}

NextFilter ==
    \/ login(EmailA, "pw1")
    \/ \E h \in IssuedHeaders, u \in UserIds, a \in {"a1", "a2"}, t \in ListingTypes,
          b \in {"3", "4", "5"} : create_listing(h, u, a, t, b, <<>>)
    \/ \E h \in IssuedHeaders, l \in {"l0", "l1"}, t \in ListingTypes, b \in {"3", "4", "5"} :
          update_listing(h, l, t, b, <<>>)
    \/ \E t \in {<<>>, Rent, RentUpper}, b \in {"", "3+", "4", "x"},
          a \in {GreenMeadows, GreenHeights, str_lower(GreenMeadows)} :
          filter_listings_for_apartment(t, b, a)

SpecFilter == InitFilter /\ [][NextFilter]_vars

FilterAnswered == last.op = "filter_listings_for_apartment" /\ last.status = 200

ReturnedIds == {r.id : r \in last.arg[1].results}

\* the listings of the apartment named exactly `apartment` whose bedroom count the
\* bedrooms value selects
BedroomMatches(bedrooms, apartment) ==
    {l \in DOMAIN listings :
        /\ listings[l].apartment_id \in DOMAIN apartments
        /\ apartments[listings[l].apartment_id].name = apartment
        /\ IF bedrooms = "3+" THEN listings[l].bedrooms > 3
           ELSE listings[l].bedrooms = BedroomsOf[bedrooms]}

\* C14: with bedrooms = "3+" filter_listings returns exactly the listings of the
\* named apartment with more than 3 bedrooms, with any other non-empty value n
\* exactly those with int(n) bedrooms; when a type is given the result is the part
\* of them that passes the type filter; every returned listing belongs to the
\* apartment whose name is exactly the apartment argument.
C14_BedroomsFilter ==
    (FilterAnswered /\ last.arg[1].request.bedrooms # "")
        => LET request == last.arg[1].request
               expected == BedroomMatches(request.bedrooms, request.apartment)
           IN
           /\ request.typeOfListing = <<>> => ReturnedIds = expected
           /\ ReturnedIds \subseteq expected
           /\ \A l \in expected :
                 listings[l].listing_type = request.typeOfListing => l \in ReturnedIds

\* "3+" returned a listing with 5 bedrooms and left out one with 3 of the same apartment
C14_Witness ==
    /\ FilterAnswered
    /\ last.arg[1].request.bedrooms = "3+"
    /\ \E l \in ReturnedIds : listings[l].bedrooms = 5
    /\ \E l \in DOMAIN listings \ ReturnedIds :
          /\ listings[l].bedrooms = 3
          /\ apartments[listings[l].apartment_id].name = last.arg[1].request.apartment

\* C15: with a type given, filter_listings returns exactly the listings of the
\* apartment (selected by the bedrooms value, if any) whose stored listing type
\* equals the requested type ignoring case, whatever the casing of either.
C15_TypeIgnoringCase ==
    (FilterAnswered /\ last.arg[1].request.typeOfListing # <<>>)
        => LET request == last.arg[1].request IN
           ReturnedIds =
              {l \in DOMAIN listings :
                  /\ apartments[listings[l].apartment_id].name = request.apartment
                  /\ request.bedrooms # "" => l \in BedroomMatches(request.bedrooms,
                                                                   request.apartment)
                  /\ str_lower(listings[l].listing_type) = str_lower(request.typeOfListing)}

\* C19: after any sequence of create_listing and update_listing calls the listing
\* type of every stored listing is rent or sale (in any casing).
C19_ListingTypeClosedSet ==
    \A l \in DOMAIN listings : str_lower(listings[l].listing_type) \in {Rent, Sale}

(***************************************************************************)
(* SpecCascade: users with listings and images; listings and users are     *)
(* deleted.  The media host may refuse a deletion (ik_ok = FALSE).         *)
(***************************************************************************)
InitCascade ==
    /\ now = 0
    /\ tz \in TzOffsets
    /\ users = RegisteredUsers
    /\ apartments = StoredApartments
    /\ listings = StoredListings
    /\ images = StoredImages
    /\ issued = {}
    /\ last = Idle
    /\ search = NoSearch
    /\ requests = NoRequests

NextCascade ==
    \/ login(EmailA, "pw1")
    \/ \E h \in IssuedHeaders, u \in UserIds, f \in {<<>>, <<"ok">>} :
          create_listing(h, u, "a1", Rent, "2", f)
    \/ \E h \in IssuedHeaders, l \in {"l0", "l1"}, f \in {<<>>, <<"ok">>} :
          update_listing(h, l, Sale, "4", f)
    \/ \E h \in IssuedHeaders, l \in {"l0", "l1"}, ok \in BOOLEAN : delete_listing(h, l, ok)
    \/ \E u \in UserIds, ok \in BOOLEAN : delete_user(u, ok)

SpecCascade == InitCascade /\ [][NextCascade]_vars

OwnedBy(u) == {l \in DOMAIN listings : listings[l].user_id = u}

\* C16: after a successful delete_user(U) there is no User row U, no Listing row
\* of U and no ListingImage row of a listing U owned; after a successful
\* delete_listing(L) there is no ListingImage row of L.
C16_DeletesCascade ==
    [][/\ (last'.op = "delete_user" /\ last'.status = 201)
          => LET U == last'.arg[1] IN
             /\ U \notin DOMAIN users'
             /\ \A l \in DOMAIN listings' : listings'[l].user_id # U
             /\ \A i \in DOMAIN images' : images'[i].listing_id \notin OwnedBy(U)
       /\ (last'.op = "delete_listing" /\ last'.status = 201)
          => LET L == last'.arg[1] IN
             /\ L \notin DOMAIN listings'
             /\ \A i \in DOMAIN images' : images'[i].listing_id # L]_vars

\* u1, who owned a listing with an image, was deleted; no token was ever issued,
\* so it is delete_user that removed the listing and the image
C16_Witness ==
    /\ last.op = "delete_user"
    /\ last.status = 201
    /\ last.arg = Some("u1")
    /\ issued = {}
    /\ "l0" \notin DOMAIN listings
    /\ "i0" \notin DOMAIN images

(***************************************************************************)
(* SpecRace: two register_user calls that overlap, on an empty database.   *)
(***************************************************************************)
InitRace ==
    /\ now = 0
    /\ tz \in TzOffsets
    /\ users = <<>>
    /\ apartments = <<>>
    /\ listings = <<>>
    /\ images = <<>>
    /\ issued = {}
    /\ last = Idle
    /\ search = NoSearch
    /\ requests = NoRequests

NextRace ==
    \/ \E r \in RequestIds, e \in TypedEmails, p \in Passwords : register_user_check(r, NameA, e, p)
    \/ \E r \in RequestIds : register_user_create(r)

SpecRace == InitRace /\ [][NextRace]_vars

SameEmail(r1, r2) ==
    str_lower(requests[r1].user[1].email) = str_lower(requests[r2].user[1].email)

\* C20: under every interleaving of register_user calls no two User rows have
\* emails equal ignoring case, and of two calls for the same email at most one
\* creates a row while the other ends with the 'already exists' message or the
\* generic 500 error.
C20_NoDuplicateUnderRace ==
    /\ \A u, v \in DOMAIN users :
          u # v => str_lower(users[u].email) # str_lower(users[v].email)
    /\ \A r1, r2 \in RequestIds :
          (/\ r1 # r2
           /\ requests[r1].pc = "done"
           /\ requests[r2].pc = "done"
           /\ SameEmail(r1, r2)
           /\ requests[r1].outcome = "registered")
             => requests[r2].outcome \in {"already exists", "Could not register user"}

\* both calls passed the check before either inserted: one inserted the row, the
\* other hit the unique constraint
C20_Witness ==
    /\ requests["r1"].pc = "done"
    /\ requests["r2"].pc = "done"
    /\ SameEmail("r1", "r2")
    /\ requests["r1"].user[1].email # requests["r2"].user[1].email
    /\ requests["r1"].outcome = "registered"
    /\ requests["r2"].outcome = "Could not register user"
    /\ Cardinality(DOMAIN users) = 1

(***************************************************************************)
(* SpecUpload: listings are created and updated with uploads of which some *)
(* files fail.                                                             *)
(***************************************************************************)
InitUpload ==
    /\ now = 0
    /\ tz \in TzOffsets
    /\ users = RegisteredUsers
    /\ apartments = StoredApartments
    /\ listings = <<>>
    /\ images = <<>>
    /\ issued = {}
    /\ last = Idle
    /\ search = NoSearch
    /\ requests = NoRequests

UploadFiles ==
    {<<>>, <<"ok">>, <<"upload_fails">>, <<"unidentified">>, <<"ok", "upload_fails">>,
     <<"ok", "unidentified">>}

NextUpload ==
    \/ \E e \in {EmailA, EmailB} : login(e, IF e = EmailA THEN "pw1" ELSE "pw2")
    \/ \E h \in BearerHeaders, u \in UserIds, f \in UploadFiles :
          create_listing(h, u, "a1", Rent, "2", f)
    \/ \E h \in BearerHeaders, l \in ListingIds, f \in UploadFiles :
          update_listing(h, l, Sale, "4", f)
    \/ \E h \in BearerHeaders, l \in ListingIds, ok \in BOOLEAN : delete_listing(h, l, ok)

SpecUpload == InitUpload /\ [][NextUpload]_vars

UploadFails(files) == \E k \in DOMAIN files : files[k] # "ok"

\* the files uploaded before the first one that fails
UploadedBeforeFailure(files) ==
    {k \in DOMAIN files : \A j \in 1..k : files[j] = "ok"}

\* C21: when create_listing has committed the Listing row and the upload of one of
\* the images then fails, the request ends with 500, the Listing row stays, the
\* ListingImage rows of the images uploaded before the failure stay, and every
\* row stored before the request is as it was.
C21_NoRollbackAfterFailedUpload ==
    [][\A h \in BearerHeaders, u \in UserIds, f \in UploadFiles :
          (/\ create_listing(h, u, "a1", Rent, "2", f)
           /\ GuardVerdict(h) = "accepted"
           /\ UploadFails(f))
            => /\ last'.status = 500
               /\ last'.arg # None
               /\ last'.arg[1] \in DOMAIN listings' \ DOMAIN listings
               /\ listings'[last'.arg[1]] = ListingRow(u, "a1", Rent, 2)
               /\ Cardinality({i \in DOMAIN images' : images'[i].listing_id = last'.arg[1]})
                     = Cardinality(UploadedBeforeFailure(f))
               /\ \A i \in DOMAIN images : i \in DOMAIN images' /\ images'[i] = images[i]]_vars

\* a creation ended with 500 and left its listing with the image uploaded first
C21_Witness ==
    /\ last.op = "create_listing"
    /\ last.status = 500
    /\ last.guard = "accepted"
    /\ last.arg # None
    /\ last.arg[1] \in DOMAIN listings
    /\ \E i \in DOMAIN images : images[i].listing_id = last.arg[1]

(***************************************************************************)
(* SpecUserListings: a user's listings, with and without images, are       *)
(* created and listed.                                                     *)
(***************************************************************************)
InitUserListings ==
    /\ now = 0
    /\ tz \in TzOffsets
    /\ users = RegisteredUsers
    /\ apartments = StoredApartments
    /\ listings = StoredListings
    /\ images = StoredImages
    /\ issued = {}
    /\ last = Idle
    /\ search = NoSearch
    /\ requests = NoRequests

NextUserListings ==
    \/ login(EmailA, "pw1")
    \/ \E h \in IssuedHeaders, u \in UserIds, f \in {<<>>, <<"ok">>} :
          create_listing(h, u, "a1", Rent, "2", f)
    \/ \E h \in IssuedHeaders, l \in {"l0", "l1"}, f \in {<<>>, <<"ok">>} :
          update_listing(h, l, Sale, "4", f)
    \/ \E h \in IssuedHeaders, l \in {"l0", "l1"}, ok \in BOOLEAN : delete_listing(h, l, ok)
    \/ \E u \in UserIds : get_user_listings(u)

SpecUserListings == InitUserListings /\ [][NextUserListings]_vars

\* C25: every entry of the get_user_listings response carries in 'images' exactly
\* the images whose listing_id is the entry's listing id: none of another
\* listing, and none when the listing has no images.
C25_ImagesOfTheirListing ==
    last.op = "get_user_listings"
        => \A entry \in last.arg[1].listings :
              entry.images = {i \in DOMAIN images : images[i].listing_id = entry.id}

(***************************************************************************)
(* SpecAccounts: two users with tokens, a stored listing of u1; accounts   *)
(* are deleted while their tokens are still in use.  No user is registered *)
(* here: a deleted user's id (a uuid4) is never given to a new row.        *)
(***************************************************************************)
InitAccounts ==
    /\ now = 0
    /\ tz \in TzOffsets
    /\ users = RegisteredUsers
    /\ apartments = StoredApartments
    /\ listings = StoredListings
    /\ images = StoredImages
    /\ issued = {}
    /\ last = Idle
    /\ search = NoSearch
    /\ requests = NoRequests

NextAccounts ==
    \/ Tick(MaxTime)
    \/ \E e \in {EmailA, EmailB} : login(e, IF e = EmailA THEN "pw1" ELSE "pw2")
    \/ \E u \in UserIds : delete_user(u, TRUE)
    \/ \E h \in IssuedHeaders : verify_token_validity(h)
    \/ \E h \in IssuedHeaders, u \in UserIds : create_listing(h, u, "a1", Rent, "2", <<>>)
    \/ \E h \in IssuedHeaders, l \in {"l0", "l1"} : update_listing(h, l, Sale, "4", <<>>)
    \/ \E h \in IssuedHeaders, l \in {"l0", "l1"} : delete_listing(h, l, TRUE)
    \/ \E h \in IssuedHeaders, u \in UserIds : update_user_profile(h, u, NameB)

SpecAccounts == InitAccounts /\ [][NextAccounts]_vars

\* the operations that start with verify_id_from_token
VerifiedOps ==
    {"verify_token_validity", "create_listing", "update_listing", "delete_listing",
     "remove_image_from_imagekit", "update_user_profile"}

TokenOfLast == last.header[1].cred

C27_OnlyTheOwnerChangesAListing ==
    [][(/\ last'.op \in {"update_listing", "delete_listing"}
        /\ <<listings, images>>' # <<listings, images>>)
          => /\ last'.arg[1] \in DOMAIN listings
             /\ last'.header # None
             /\ last'.header[1].cred.sub = listings[last'.arg[1]].user_id]_vars

====
